---- MODULE Spec2Model ----
(***************************************************************************)
(* Model of the storefront components.                                     *)
(*                                                                         *)
(* Part 1: <cart-discount-component> (CartDiscount).  One controller, its  *)
(* private fields, the part of the DOM it reads and writes (pills, input,  *)
(* submit button, live region, error panels) and the requests in flight.   *)
(* An async handler is cut at its await points: the synchronous prefix is  *)
(* one action, every continuation (fetch settled, body read) is another.   *)
(*                                                                         *)
(* Strings are sequences of one-character strings, so that normalisation  *)
(* and the comma join are computed character by character.                 *)
(*                                                                         *)
(* The environment: the element has its data-section-id, its form, input   *)
(* and submit button and its three error refs; the platform renders no     *)
(* code twice and no empty code on the pills; a response lists at most one *)
(* discount_codes entry; morphSection replaces the pills by those of the   *)
(* markup it is given and touches nothing else the controller reads.  A    *)
(* request whose signal is aborted rejects: at `await fetch` while it is   *)
(* pending, at `await res.json()` once the response has arrived.           *)
(*                                                                         *)
(* Part 2: <blog-posts-list> (BlogPostsList).  The element, its private    *)
(* fields, the children of .bpl__list, the load-more button and the        *)
(* sentinel, the endpoint, and the loadNext invocations suspended at an    *)
(* await.  The environment: the element has its data-endpoint (the branch  *)
(* for a missing one calls #emitError, a private name the class does not   *)
(* declare); reset() and loadNext() are called once connectedCallback has  *)
(* built the skeleton; the endpoint serves its posts in pages of the       *)
(* requested size, or of its own default size.                             *)
(*                                                                         *)
(* Part 3: <accordion-custom> (AccordionCustom).  The element, its data    *)
(* attributes, #controller and the three listeners connectedCallback       *)
(* registers.  The body of #setDefaultOpenState is not part of the source  *)
(* at hand beyond its first lines: it may leave the <details> open or      *)
(* closed.                                                                 *)
(*                                                                         *)
(* Part 4: the auto-close-details script.  The window width, closingOn and *)
(* lastWidth, the <details> elements of the page and their nesting, and    *)
(* whether AutoCloseDetails.stop() ran.                                    *)
(***************************************************************************)
EXTENDS Naturals, Integers, Sequences, FiniteSets, TLC

\* ---------------------------------------------------------------- bounds
\* Number of requests that may be in flight (issued, not yet settled) at once.
MaxInFlight == 2
\* Longest list of pills the platform renders.
MaxPills == 1
\* Longest raw string normalisation is checked on.
MaxLen == 3
\* Longest list of pills a request body is built from.
MaxRendered == 3
\* Most posts the blog endpoint holds.
MaxPosts == 3
\* Most loadNext invocations suspended at once.
MaxLoads == 2

\* --------------------------------------------------------------- strings
Whitespace == {" "}
Lower == {"a", "b", "c"}
Chars == Lower \cup {"A", "B", "C", "#", " "}

RECURSIVE SeqsUpTo(_, _)
SeqsUpTo(S, n) ==
  IF n = 0 THEN {<<>>}
  ELSE LET shorter == SeqsUpTo(S, n - 1)
       IN shorter \cup {Append(s, x) : s \in {t \in shorter : Len(t) = n - 1}, x \in S}

Range(s) == {s[k] : k \in 1..Len(s)}

\* String.prototype.trim
RECURSIVE TrimLeft(_)
TrimLeft(s) == IF s # <<>> /\ Head(s) \in Whitespace THEN TrimLeft(Tail(s)) ELSE s
RECURSIVE TrimRight(_)
TrimRight(s) ==
  IF s # <<>> /\ s[Len(s)] \in Whitespace THEN TrimRight(SubSeq(s, 1, Len(s) - 1)) ELSE s
Trim(s) == TrimRight(TrimLeft(s))

\* .replace(/\s+/g, '')
IsNotWhitespace(ch) == ch \notin Whitespace
RemoveWhitespace(s) == SelectSeq(s, IsNotWhitespace)

\* .replace(/^#/, ''): one leading '#', no more
StripLeadingHash(s) == IF s # <<>> /\ Head(s) = "#" THEN Tail(s) ELSE s

\* .toUpperCase()
UpperChar(ch) ==
  CASE ch = "a" -> "A" [] ch = "b" -> "B" [] ch = "c" -> "C" [] OTHER -> ch
ToUpperCase(s) == [k \in 1..Len(s) |-> UpperChar(s[k])]

normalizeCode(raw) == ToUpperCase(StripLeadingHash(RemoveWhitespace(Trim(raw))))

\* String.prototype.split(',')
RECURSIVE SplitComma(_)
SplitComma(text) ==
  IF "," \notin Range(text) THEN <<text>>
  ELSE LET cut == CHOOSE k \in 1..Len(text) :
                    text[k] = "," /\ \A j \in 1..(k - 1) : text[j] # ","
       IN <<SubSeq(text, 1, cut - 1)>> \o SplitComma(SubSeq(text, cut + 1, Len(text)))

\* Array.prototype.join(',')
RECURSIVE JoinComma(_)
JoinComma(list) ==
  IF list = <<>> THEN <<>>
  ELSE IF Len(list) = 1 THEN list[1]
  ELSE list[1] \o <<",">> \o JoinComma(Tail(list))

\* ------------------------------------------------------------- the world
\* data-discount-code values the platform renders on pills.
PillTexts == {<<"a">>, <<"B">>}
\* Values the shopper types into input[name="discount"].
RawInputs == {<<"#">>, <<"A">>, <<" ", "b">>}

NoDupNormalized(list) ==
  \A j, k \in 1..Len(list) : j # k => normalizeCode(list[j]) # normalizeCode(list[k])
\* Pill lists the platform renders: no code twice.
PillLists == {l \in SeqsUpTo(PillTexts, MaxPills) : NoDupNormalized(l)}

\* response.json() outcomes.  "unreadable": the body promise rejects (not JSON,
\* the connection drops, or the request is aborted while the body is read).
\* "nonobject": JSON that is null or a primitive.  "object": a JSON object;
\* dcArray says whether discount_codes is an array, hasHtml whether
\* sections[sectionId] is a string (html lists the pills of that markup).
DiscountCodeEntries ==
  {<<[code |-> c, applicable |-> b]>> : c \in PillTexts, b \in BOOLEAN}
Unreadable ==
  [kind |-> "unreadable", dcArray |-> FALSE, dc |-> <<>>, hasHtml |-> FALSE, html |-> <<>>]
NonObject ==
  [kind |-> "nonobject", dcArray |-> FALSE, dc |-> <<>>, hasHtml |-> FALSE, html |-> <<>>]
\* let data = {}
EmptyData ==
  [kind |-> "object", dcArray |-> FALSE, dc |-> <<>>, hasHtml |-> FALSE, html |-> <<>>]
WithCodes(b) == {b} \cup {[b EXCEPT !.dcArray = TRUE, !.dc = d] : d \in DiscountCodeEntries}
WithMarkup(b) == {b} \cup {[b EXCEPT !.hasHtml = TRUE, !.html = l] : l \in PillLists}
Objects == UNION {WithMarkup(b) : b \in WithCodes(EmptyData)}
Bodies == {Unreadable, NonObject} \cup Objects

\* ----------------------------------------------------------------- state
VARIABLES
  pills,        \* data-discount-code of the rendered .cart-discount__pill items
  input,        \* value of input[name="discount"]
  errors,       \* 'hidden' class of the three error refs
  ui,           \* #submitBtn, its disabled / aria-busy, #statusLive
  activeFetch,  \* #activeFetch: 0 is null, else the place in ops of the
                \* operation whose AbortController it holds
  ops,          \* the suspended handler invocations, oldest first: position,
                \* closure variables, the controller's signal
  out,          \* external calls made by the last handler step, in order
  delivered,    \* the event the last step handled: the call or the settlement
  connected,    \* whether the cart-discount element is in the document
  raw, once, twice, npc,  \* normalisation applied twice to one raw string
  server,       \* the blog endpoint: what it holds and what its responses carry
  bpl,          \* the <blog-posts-list> element: data attributes, private
                \* fields, and the part of its DOM the class reads and writes
  loads,        \* the suspended loadNext invocations, oldest first
  blogEvent,    \* what the last step of the blog list handled
  track,        \* history of the blog list the properties speak about
  acc,          \* an <accordion-custom> element: attributes, the structure
                \* inside it, #controller and the listeners it registered
  accEvent,     \* what the last step of the accordion handled
  acd,          \* the auto-close-details script and the page it runs on
  acdEvent      \* what the last step of the auto-close script handled

cartVars == <<pills, input, errors, ui, activeFetch, ops, out, delivered, connected>>
normVars == <<raw, once, twice, npc>>
blogVars == <<server, bpl, loads, blogEvent, track>>
\* what the handlers of the cart-discount controller never touch
restVars == <<connected, normVars, blogVars, acc, accEvent, acd, acdEvent>>
widgetVars == <<acc, accEvent, acd, acdEvent>>
vars == <<pills, input, errors, ui, activeFetch, ops, out, delivered, connected,
          raw, once, twice, npc, server, bpl, loads, blogEvent, track,
          acc, accEvent, acd, acdEvent>>

OpIds == 1..Len(ops)

IdleOp ==
  [pc |-> "idle", kind |-> "none", code |-> <<>>, existing |-> <<>>,
   aborted |-> FALSE, ok |-> FALSE]
\* ops without its i-th element: the invocation has run to its end.
Settled(i) == SubSeq(ops, 1, i - 1) \o SubSeq(ops, i + 1, Len(ops))

NoData == [kind |-> "none", dcArray |-> FALSE, dc |-> <<>>, hasHtml |-> FALSE, html |-> <<>>]
Call(type, op, text, data) == [type |-> type, op |-> op, text |-> text, data |-> data]

\* What the last step handled, in the words of the specification: the call or
\* settlement, the operation (its place in ops when the step began, 0 if the
\* call started none), its kind, whether its signal was aborted, and which case
\* of the call or of the response it was.
Event(what, op, o, case) ==
  [what |-> what, op |-> op, kind |-> o.kind, aborted |-> o.aborted, case |-> case]
Nothing == Event("none", 0, IdleOp, <<>>)
CodeSet(list) == {normalizeCode(list[k]) : k \in 1..Len(list)}
\* How discount_codes lists the operation's code.
Marked(body, code) ==
  IF ~body.dcArray \/ \A k \in 1..Len(body.dc) : normalizeCode(body.dc[k].code) # code
  THEN <<"unmarked">>
  ELSE IF \E k \in 1..Len(body.dc) :
            normalizeCode(body.dc[k].code) = code /\ body.dc[k].applicable
  THEN <<"applicable">> ELSE <<"inapplicable">>
\* How the pills of the returned section compare with the pills read when the
\* request was built.
Markup(body, o) ==
  IF ~body.hasHtml THEN <<"nomarkup">>
  ELSE IF CodeSet(body.html) = Range(o.existing) THEN <<"same">>
  ELSE IF o.code \in CodeSet(body.html) THEN <<"gained">>
  ELSE <<"other">>
\* The case of a response, following the specification's case analysis.
ResponseCase(o, body) ==
  IF ~o.ok THEN <<"notok">>
  ELSE IF body.kind # "object" THEN <<body.kind>>
  ELSE IF o.kind = "remove" THEN <<"object">>
  ELSE IF Marked(body, o.code) = <<"inapplicable">> THEN <<"inapplicable">>
  ELSE Marked(body, o.code) \o Markup(body, o)
BodyEvent(op, o, body) == Event("body", op, o, ResponseCase(o, body))

\* #existingDiscounts pushing pill.dataset.discountCode as rendered
existingDiscountsRaw == pills

\* #existingDiscounts
existingDiscounts == [k \in 1..Len(pills) |-> normalizeCode(pills[k])]

\* #hideAllErrors
hideAllErrors ==
  [cartDiscountError |-> TRUE, cartDiscountErrorDiscountCode |-> TRUE,
   cartDiscountErrorShipping |-> TRUE]

\* #showError part 1: the panels
showErrorPanels(e, type) ==
  IF type = "discount_code"
  THEN [e EXCEPT !.cartDiscountError = FALSE, !.cartDiscountErrorDiscountCode = FALSE]
  ELSE [e EXCEPT !.cartDiscountError = FALSE, !.cartDiscountErrorShipping = FALSE]
\* #showError part 2: if (this.#statusLive) this.#statusLive.textContent = ''
showErrorStatus(u) == IF u.statusLive THEN [u EXCEPT !.statusText = ""] ELSE u

\* #lockUI
lockUI(u, label) ==
  [submitBtn |-> TRUE, disabled |-> TRUE, ariaBusy |-> TRUE,
   statusLive |-> TRUE, statusText |-> label]

\* #unlockUI that clears the status text and leaves the button as it is
unlockUIStatusOnly(u, label) ==
  [u EXCEPT !.statusText = IF u.statusLive THEN label ELSE u.statusText]

\* #unlockUI
unlockUI(u, label) ==
  [submitBtn |-> u.submitBtn,
   disabled |-> IF u.submitBtn THEN FALSE ELSE u.disabled,
   ariaBusy |-> IF u.submitBtn THEN FALSE ELSE u.ariaBusy,
   statusLive |-> u.statusLive,
   statusText |-> IF u.statusLive THEN label ELSE u.statusText]

\* #newAbort: abort the controller #activeFetch holds, install a new one
newAbortOps(fresh) ==
  Append([k \in OpIds |-> IF k = activeFetch THEN [ops[k] EXCEPT !.aborted = TRUE] ELSE ops[k]],
         fresh)
newAbortCalls == IF activeFetch # 0 THEN <<Call("abort", activeFetch, <<>>, NoData)>> ELSE <<>>

\* <blog-posts-list> as the constructor leaves it (field initialisers), with
\* its data-page-size (0: absent) and data-infinite; no skeleton yet.
Constructed(ps, inf) ==
  [pageSize |-> ps, infinite |-> inf, controller |-> FALSE, io |-> FALSE,
   page |-> 1, loading |-> FALSE, done |-> FALSE,
   skeleton |-> FALSE, list |-> <<>>, moreHidden |-> TRUE, sentinelHidden |-> TRUE,
   status |-> "", ariaBusy |-> FALSE, clicks |-> 0, observers |-> 0]
\* An endpoint with no posts whose responses carry neither total nor pageSize.
NoPosts == [posts |-> 0, total |-> FALSE, pageSize |-> FALSE]
\* What the last step of the blog list handled: the call or settlement, its
\* case, the page of the request the step issued (0: none), and for a
\* settlement the page that had been requested and whether reset() ran since.
BlogEvent(what, case, req, page, stale) ==
  [what |-> what, case |-> case, req |-> req, page |-> page, stale |-> stale]
NoBlogEvent == BlogEvent("none", "none", 0, 0, FALSE)
Untracked == [sinceReset |-> FALSE, tainted |-> FALSE]
\* No blog list on the page.
BlogOff ==
  /\ server = NoPosts
  /\ bpl = Constructed(0, FALSE)
  /\ loads = <<>>
  /\ blogEvent = NoBlogEvent
  /\ track = Untracked

\* <accordion-custom> as the constructor leaves it: its three data
\* attributes, whether the <details> and its <summary> are inside it
\* ("none", "details": a <details> without <summary>, "full"), whether
\* @theme/utilities exports mediaQueryLarge, the open attribute of the
\* <details>; #controller is null and nothing is registered.
\* A listener is "off", "held" (registered with the signal of the controller
\* #controller holds) or "lost" (registered with the signal of a controller
\* the element no longer holds).
AccordionCustom(st, mq, esc, dm, dd, op) ==
  [structure |-> st, mediaQueryLarge |-> mq, closeWithEscape |-> esc,
   disableOnMobile |-> dm, disableOnDesktop |-> dd, open |-> op,
   connected |-> FALSE, controller |-> "null",
   keydown |-> "off", click |-> "off", change |-> "off"]
AccordionEvent(what, case) == [what |-> what, case |-> case]
\* No accordion on the page.
AccordionOff ==
  /\ acc = AccordionCustom("none", FALSE, "absent", "absent", "absent", FALSE)
  /\ accEvent = AccordionEvent("none", "none")

\* const BREAKPOINT of the auto-close-details script
BREAKPOINT == 750
\* What the last step of the auto-close script handled: for a click its target
\* node and the details it closed, for a resize the width observed before it.
AcdEvent(what, target, closed) == [what |-> what, target |-> target, closed |-> closed]
\* The auto-close-details script not loaded.
AutoCloseOff ==
  /\ acd = [innerWidth |-> BREAKPOINT, closingOn |-> "desktop", lastWidth |-> BREAKPOINT,
            stopped |-> TRUE, attrs |-> <<>>, open |-> <<>>, parent |-> <<>>]
  /\ acdEvent = AcdEvent("none", 0, {})

Init ==
  /\ pills \in PillLists
  /\ input = <<>>
  /\ errors = hideAllErrors
  /\ ui = [submitBtn |-> FALSE, disabled |-> FALSE, ariaBusy |-> FALSE,
           statusLive |-> FALSE, statusText |-> ""]
  /\ activeFetch = 0
  /\ ops = <<>>
  /\ out = <<>>
  /\ delivered = Nothing
  /\ connected = TRUE
  /\ raw = <<>> /\ once = <<>> /\ twice = <<>> /\ npc = "off"
  /\ BlogOff
  /\ AccordionOff
  /\ AutoCloseOff

\* The shopper edits the input field.
TypeInput(s) ==
  /\ input # s
  /\ input' = s
  /\ out' = <<>>
  /\ delivered' = Event("type", 0, IdleOp, <<>>)
  /\ UNCHANGED <<pills, errors, ui, activeFetch, ops, restVars>>

\* a test that takes every code, the empty one too, for a code
notCodeNever(code) == FALSE
\* !code
notCode(code) == code = <<>>

\* a membership test that never finds the code
includesNever(list, x) == FALSE
\* Array.prototype.includes
includes(list, x) == x \in Range(list)

\* applyDiscount up to `await fetch(...)`
applyDiscount ==
  LET code == normalizeCode(input)
      existing == existingDiscounts
      id == Len(ops) + 1
      fresh == [pc |-> "fetch", kind |-> "apply", code |-> code, existing |-> existing,
                aborted |-> FALSE, ok |-> FALSE]
  IN /\ \/ \* if (!code) return
           /\ notCode(code)
           /\ delivered' = Event("apply", 0, IdleOp, <<"empty">>)
           /\ out' = <<>>
           /\ UNCHANGED <<pills, input, errors, ui, activeFetch, ops>>
        \/ \* already applied: clear input silently
           /\ ~notCode(code)
           /\ includes(existing, code)
           /\ delivered' = Event("apply", 0, IdleOp, <<"present">>)
           /\ input' = <<>>
           /\ out' = <<>>
           /\ UNCHANGED <<pills, errors, ui, activeFetch, ops>>
        \/ /\ ~notCode(code)
           /\ ~includes(existing, code)
           /\ Len(ops) < MaxInFlight
           /\ delivered' = Event("apply", id, fresh, <<"new">>)
           /\ errors' = hideAllErrors
           /\ ui' = lockUI(ui, "Applying")
           /\ ops' = newAbortOps(fresh)
           /\ activeFetch' = id
           /\ out' = newAbortCalls
                       \o <<Call("fetch", id, JoinComma(Append(existing, code)), NoData)>>
           /\ UNCHANGED <<pills, input>>
     /\ UNCHANGED restVars

\* existing.indexOf(code) without the `idx === -1` return: splice(-1, 1) then
\* removes the last code
IndexOfOrLast(list, x) ==
  IF x \in Range(list) THEN CHOOSE k \in 1..Len(list) : list[k] = x /\ \A j \in 1..(k - 1) : list[j] # x
  ELSE Len(list)

\* existing.indexOf(code) (0 for -1); existing.splice(idx, 1)
IndexOf(list, x) ==
  IF x \in Range(list) THEN CHOOSE k \in 1..Len(list) : list[k] = x /\ \A j \in 1..(k - 1) : list[j] # x
  ELSE 0
\* a removal that moves the codes after idx in front of those before it
Splice1Rotated(list, idx) == SubSeq(list, idx + 1, Len(list)) \o SubSeq(list, 1, idx - 1)
Splice1(list, idx) == SubSeq(list, 1, idx - 1) \o SubSeq(list, idx + 1, Len(list))

\* removeDiscount up to `await fetch(...)`.  The event comes from a pill whose
\* data-discount-code is `text` (a pill still rendered, or one a morph has
\* replaced since), activated by a click or a key.
removeDiscount(text, key) ==
  LET code == normalizeCode(text)
      existing == existingDiscounts
      idx == IndexOf(existing, code)
      id == Len(ops) + 1
      fresh == [pc |-> "fetch", kind |-> "remove", code |-> code,
                existing |-> Splice1(existing, idx), aborted |-> FALSE, ok |-> FALSE]
  IN /\ \/ \* a key other than Enter, an empty code, or a code that is not rendered
           /\ key = "Space" \/ code = <<>> \/ idx = 0
           /\ delivered' = Event("remove", 0, IdleOp,
                                 IF key = "Space" THEN <<"key">> ELSE <<"absent">>)
           /\ out' = <<>>
           /\ UNCHANGED <<pills, input, errors, ui, activeFetch, ops>>
        \/ /\ key # "Space" /\ code # <<>> /\ idx # 0
           /\ Len(ops) < MaxInFlight
           /\ delivered' = Event("remove", id, fresh, <<"present">>)
           /\ ops' = newAbortOps(fresh)
           /\ activeFetch' = id
           /\ out' = newAbortCalls
                       \o <<Call("fetch", id, JoinComma(Splice1(existing, idx)), NoData)>>
           /\ UNCHANGED <<pills, input, errors, ui>>
     /\ UNCHANGED restVars

\* let data = {}; try { data = await res.json(); } catch {}
parseBody(body) == IF body.kind = "unreadable" THEN EmptyData ELSE body

\* !res.ok || !data || typeof data !== 'object'
badResponse(ok, data) == ~ok \/ data.kind # "object"

\* data.discount_codes.some(d => normalize(d.code) === code && d.applicable === flag)
someCode(data, code, flag) ==
  /\ data.dcArray
  /\ \E k \in 1..Len(data.dc) :
       normalizeCode(data.dc[k].code) = code /\ data.dc[k].applicable = flag
\* the same test comparing d.code as sent, not normalised
notApplicableRaw(data, code) ==
  data.dcArray /\ \E k \in 1..Len(data.dc) : data.dc[k].code = code /\ ~data.dc[k].applicable
notApplicable(data, code) == someCode(data, code, FALSE)
applicable(data, code) == someCode(data, code, TRUE)

\* codes of the pills of the returned markup, empty ones dropped (.filter(Boolean))
IsNonEmpty(c) == c # <<>>
\* the same list taking el.dataset.discountCode as rendered
nextCodesRaw(html) == SelectSeq(html, IsNonEmpty)
nextCodes(html) == SelectSeq([k \in 1..Len(html) |-> normalizeCode(html[k])], IsNonEmpty)

noNewPill(next, existing) ==
  Len(next) = Len(existing) /\ \A k \in 1..Len(next) : next[k] \in Range(existing)

\* the two calls the other way round
morphAndDispatch(i, data) ==
  <<Call("morph", i, JoinComma(data.html), data), Call("broadcast", i, <<>>, data)>>

\* document.dispatchEvent(new DiscountUpdateEvent(data, this.id)); morphSection(id, newHtml)
dispatchAndMorph(i, data) ==
  <<Call("broadcast", i, <<>>, data), Call("morph", i, JoinComma(data.html), data)>>

\* applyDiscount from the parsed body to the end of the try block: what the
\* DOM and the call log become (before `finally`).
applyContinue(i, o, data) ==
  LET same == [errors |-> errors, ui |-> ui, input |-> input, pills |-> pills, out |-> <<>>]
      shown(type) == [same EXCEPT !.errors = showErrorPanels(errors, type),
                                  !.ui = showErrorStatus(ui)]
  IN IF badResponse(o.ok, data) THEN shown("discount_code")
     ELSE IF notApplicable(data, o.code)
       THEN [shown("discount_code") EXCEPT !.input = <<>>]
     ELSE IF data.hasHtml
       THEN IF applicable(data, o.code) /\ noNewPill(nextCodes(data.html), o.existing)
            THEN [shown("shipping") EXCEPT !.input = <<>>]
            ELSE [same EXCEPT !.out = dispatchAndMorph(i, data),
                              !.pills = data.html, !.input = <<>>]
     ELSE [same EXCEPT !.input = <<>>]

\* removeDiscount from the parsed body to the end of the try block
removeContinue(i, o, data) ==
  LET same == [errors |-> errors, ui |-> ui, input |-> input, pills |-> pills, out |-> <<>>]
  IN IF badResponse(o.ok, data) THEN same
     ELSE IF data.hasHtml
       THEN [same EXCEPT !.out = dispatchAndMorph(i, data), !.pills = data.html]
     ELSE [same EXCEPT !.out = <<Call("broadcast", i, <<>>, data)>>]

\* finally { this.#activeFetch = null; this.#unlockUI('') } of applyDiscount,
\* finally { this.#activeFetch = null } of removeDiscount
finallyFetch(o) == 0
finallyUi(o, u) == IF o.kind = "apply" THEN unlockUI(u, "") ELSE u

\* catch (err) of applyDiscount: anything but an AbortError shows the generic error
catchErrors(o, name) ==
  IF o.kind = "apply" /\ name # "AbortError" THEN showErrorPanels(errors, "discount_code")
  ELSE errors
catchUi(o, name) ==
  IF o.kind = "apply" /\ name # "AbortError" THEN showErrorStatus(ui) ELSE ui

\* `await fetch(...)` rejects: the signal was aborted, or the network failed
FetchReject(i) ==
  LET o == ops[i]
      name == IF o.aborted THEN "AbortError" ELSE "TypeError"
  IN /\ i \in OpIds
     /\ o.pc = "fetch"
     /\ errors' = catchErrors(o, name)
     /\ ui' = finallyUi(o, catchUi(o, name))
     /\ activeFetch' = finallyFetch(o)
     /\ ops' = Settled(i)
     /\ out' = <<>>
     /\ delivered' = Event("reject", i, o, <<name>>)
     /\ UNCHANGED <<pills, input, restVars>>

\* `await fetch(...)` resolves with a response; the handler goes on to res.json()
FetchResolve(i, ok) ==
  LET o == ops[i]
  IN /\ i \in OpIds
     /\ o.pc = "fetch"
     /\ ~o.aborted
     /\ ops' = [ops EXCEPT ![i] = [o EXCEPT !.pc = "json", !.ok = ok]]
     /\ out' = <<>>
     /\ delivered' = Event("response", i, o, <<IF ok THEN "ok" ELSE "notok">>)
     /\ UNCHANGED <<pills, input, errors, ui, activeFetch, restVars>>

\* `await res.json()` settles and the handler runs to its end.  Once the signal
\* is aborted the body can no longer be read.
BodySettle(i, body) ==
  LET o == ops[i]
      data == parseBody(body)
      r == IF o.kind = "apply" THEN applyContinue(i, o, data) ELSE removeContinue(i, o, data)
  IN /\ i \in OpIds
     /\ o.pc = "json"
     /\ o.aborted => body = Unreadable
     /\ errors' = r.errors
     /\ ui' = finallyUi(o, r.ui)
     /\ input' = r.input
     /\ pills' = r.pills
     /\ out' = r.out
     /\ activeFetch' = finallyFetch(o)
     /\ ops' = Settled(i)
     /\ delivered' = BodyEvent(i, o, body)
     /\ UNCHANGED restVars

\* ---------------------------------------------------------- normalisation
\* normalizeCode applied to a raw string, then to its own result.
Strings == SeqsUpTo(Chars, MaxLen)

NormInit ==
  /\ pills = <<>>
  /\ input = <<>>
  /\ errors = hideAllErrors
  /\ ui = [submitBtn |-> FALSE, disabled |-> FALSE, ariaBusy |-> FALSE,
           statusLive |-> FALSE, statusText |-> ""]
  /\ activeFetch = 0
  /\ ops = <<>>
  /\ out = <<>>
  /\ delivered = Nothing
  /\ connected = TRUE
  /\ raw \in Strings /\ once = <<>> /\ twice = <<>> /\ npc = "raw"
  /\ BlogOff
  /\ AccordionOff
  /\ AutoCloseOff

NormalizeOnce ==
  /\ npc = "raw"
  /\ once' = normalizeCode(raw)
  /\ npc' = "once"
  /\ UNCHANGED <<raw, twice, cartVars, blogVars, widgetVars>>

NormalizeTwice ==
  /\ npc = "once"
  /\ twice' = normalizeCode(once)
  /\ npc' = "twice"
  /\ UNCHANGED <<raw, once, cartVars, blogVars, widgetVars>>

NormNext == NormalizeOnce \/ NormalizeTwice

NormSpec == NormInit /\ [][NormNext]_vars

\* ------------------------------------------------------- specifications
\* The operation at place i of ops settles: the network answers or fails.
SettleAt(i) ==
  \/ FetchReject(i)
  \/ \E ok \in BOOLEAN : FetchResolve(i, ok)
  \/ \E body \in Bodies : BodySettle(i, body)

Next ==
  \/ \E s \in RawInputs : TypeInput(s)
  \/ applyDiscount
  \/ \E t \in PillTexts, key \in {"click", "Enter", "Space"} : removeDiscount(t, key)
  \/ \E i \in OpIds : SettleAt(i)

Spec == Init /\ [][Next]_vars

\* Every request settles in the end: fetch resolves or rejects, and so does the
\* reading of the body.
FairSpec == Spec /\ \A i \in 1..MaxInFlight : WF_vars(SettleAt(i))

\* ------------------------------------------------------- request bodies
\* The requests the two handlers build, from any list of pills the platform
\* may have rendered; the requests stay in flight.
RenderedTexts == PillTexts \cup {<<"c">>}
RenderedLists == {l \in SeqsUpTo(RenderedTexts, MaxRendered) : NoDupNormalized(l)}

IssueInit ==
  /\ pills \in RenderedLists
  /\ input = <<>>
  /\ errors = hideAllErrors
  /\ ui = [submitBtn |-> FALSE, disabled |-> FALSE, ariaBusy |-> FALSE,
           statusLive |-> FALSE, statusText |-> ""]
  /\ activeFetch = 0
  /\ ops = <<>>
  /\ out = <<>>
  /\ delivered = Nothing
  /\ connected = TRUE
  /\ raw = <<>> /\ once = <<>> /\ twice = <<>> /\ npc = "off"
  /\ BlogOff
  /\ AccordionOff
  /\ AutoCloseOff

IssueNext ==
  \/ \E s \in RawInputs : TypeInput(s)
  \/ applyDiscount
  \/ \E t \in RenderedTexts, key \in {"click", "Enter", "Space"} : removeDiscount(t, key)

IssueSpec == IssueInit /\ [][IssueNext]_vars

\* The element is removed from the document.  CartDiscount declares no
\* disconnectedCallback, and the AbortController of a request is held only in
\* the private field #activeFetch and in the handler's closure, out of reach
\* of the base class: nothing is aborted and the handlers stay suspended.
CartDisconnected ==
  /\ connected
  /\ connected' = FALSE
  /\ out' = <<>>
  /\ delivered' = Event("disconnect", 0, IdleOp, <<>>)
  /\ UNCHANGED <<pills, input, errors, ui, activeFetch, ops, normVars, blogVars, widgetVars>>

\* The controller on a page it can be removed from: once it is detached no
\* event reaches its form or its pills, and the requests in flight settle.
DetachNext ==
  \/ connected /\ Next
  \/ CartDisconnected
  \/ ~connected /\ \E i \in OpIds : SettleAt(i)

DetachSpec == Init /\ [][DetachNext]_vars

\* ========================================================= blog posts list
\* Part 2: <blog-posts-list> (BlogPostsList).  The element has its
\* data-endpoint; its public methods are called once it has been connected
\* (the skeleton exists).  The endpoint holds server.posts posts, numbered from
\* 1, and serves them in pages; its responses carry total and pageSize or
\* leave them out.
EndpointPageSize == 2
\* data-page-size values: 0 stands for the attribute being absent.
DataPageSizes == {0, 2}
Servers == [posts : 0..MaxPosts, total : BOOLEAN, pageSize : BOOLEAN]
\* A page that lies past the last post whatever the page size.
MaxPage == MaxPosts + 2

Min(a, b) == IF a < b THEN a ELSE b
\* The JSON the endpoint answers a request for page p with (q: the pageSize
\* parameter, 0 if the request has none).
PageData(p, q) ==
  LET size == IF q # 0 THEN q ELSE EndpointPageSize
      skip == (p - 1) * size
      n == IF server.posts > skip THEN Min(size, server.posts - skip) ELSE 0
  IN [kind |-> "page", items |-> [k \in 1..n |-> skip + k],
      hasTotal |-> server.total, total |-> server.posts,
      hasPageSize |-> server.pageSize, pageSize |-> size]
\* res.json() rejects, or yields an object without an items array
NoJson == [kind |-> "unreadable", items |-> <<>>, hasTotal |-> FALSE, total |-> 0,
           hasPageSize |-> FALSE, pageSize |-> 0]
NoItems == [kind |-> "noitems", items |-> <<>>, hasTotal |-> FALSE, total |-> 0,
            hasPageSize |-> FALSE, pageSize |-> 0]
BlogBodies(p, q) == {NoJson, NoItems, PageData(p, q)}

Child(kind, post, page) == [kind |-> kind, post |-> post, page |-> page]
ErrorDiv == Child("error", 0, 0)
EmptyDiv == Child("empty", 0, 0)

\* #updateStatus
updateStatus(e, text) == [e EXCEPT !.status = text]

\* reset()
reset(e) ==
  [updateStatus([e EXCEPT !.page = 1, !.done = FALSE, !.list = <<>>], "")
     EXCEPT !.ariaBusy = TRUE]

\* the guard of loadNext without the #loading test
loadNextReturnsIfDone(e) == e.done
\* if (this.#loading || this.#done) return
loadNextReturns(e) == e.loading \/ e.done

\* loadNext up to `await fetch(...)`: the element
loadNextStart(e) ==
  IF loadNextReturns(e) THEN e
  ELSE [updateStatus([e EXCEPT !.loading = TRUE], "Loading") EXCEPT !.ariaBusy = TRUE]
\* loadNext up to `await fetch(...)`: the request it leaves in flight
loadNextRequest(e) ==
  IF loadNextReturns(e) THEN <<>>
  ELSE <<[pc |-> "fetch", page |-> e.page, size |-> e.pageSize, stale |-> FALSE]>>
\* The model follows the element while its requests stay within the bounds.
WithinBounds(e) ==
  loadNextRequest(e) # <<>> => Len(loads) < MaxLoads

\* #renderItems: one child for each post of the page
renderItems(e, items, p) ==
  [e EXCEPT !.list = e.list \o [k \in 1..Len(items) |-> Child("item", items[k], p)]]

\* #renderEmpty
renderEmpty(e) ==
  updateStatus([e EXCEPT !.list = <<EmptyDiv>>, !.moreHidden = TRUE,
                         !.sentinelHidden = TRUE], "No posts to display.")

\* #renderError
renderError(e) ==
  LET u == updateStatus(e, "errorText")
      l == IF ErrorDiv \in Range(u.list) THEN u.list ELSE Append(u.list, ErrorDiv)
  IN [u EXCEPT !.list = l, !.moreHidden = FALSE]

\* finally { this.#loading = false; this.removeAttribute('aria-busy') }
loadFinally(e) == [e EXCEPT !.loading = FALSE, !.ariaBusy = FALSE]

\* The pages from MaxPage on are all empty and answered alike: #page counts
\* up to MaxPage and stands for any of them from there on.
Followed(p) == Min(p, MaxPage)

\* a loadNext that leaves #page as it is after a page was rendered
samePage(p) == p
\* this.#page += 1
nextPage(p) == p + 1

\* loadNext from the parsed body to the end of the try block
loadContinue(e, ld, data) ==
  LET items == IF data.kind = "page" THEN data.items ELSE <<>>
      r == renderItems(e, items, ld.page)
      total == IF data.hasTotal THEN data.total ELSE 0
      pageSize == IF data.hasPageSize /\ data.pageSize # 0 THEN data.pageSize
                  ELSE IF e.pageSize # 0 THEN e.pageSize
                  ELSE Len(items)
      rendered == Len(r.list)
  IN IF e.page = 1 /\ items = <<>>
     THEN [renderEmpty(e) EXCEPT !.done = TRUE]
     ELSE IF (total # 0 /\ rendered >= total) \/ Len(items) < pageSize
       THEN [updateStatus([r EXCEPT !.done = TRUE, !.moreHidden = TRUE,
                                    !.sentinelHidden = TRUE], "All posts loaded.")
               EXCEPT !.page = Followed(nextPage(r.page))]
       ELSE [updateStatus([r EXCEPT !.moreHidden = FALSE, !.sentinelHidden = FALSE], "")
               EXCEPT !.page = Followed(nextPage(r.page))]

\* reset() ran: the loadNext invocations suspended now were issued before it
MarkStale(ls) == [k \in 1..Len(ls) |-> [ls[k] EXCEPT !.stale = TRUE]]
\* loads without its i-th element: the invocation has run to its end.
LoadSettled(i) == SubSeq(loads, 1, i - 1) \o SubSeq(loads, i + 1, Len(loads))
RequestedPage(e) == IF loadNextRequest(e) = <<>> THEN 0 ELSE e.page

\* No cart-discount controller on the page.
CartOff ==
  /\ pills = <<>>
  /\ input = <<>>
  /\ errors = hideAllErrors
  /\ ui = [submitBtn |-> FALSE, disabled |-> FALSE, ariaBusy |-> FALSE,
           statusLive |-> FALSE, statusText |-> ""]
  /\ activeFetch = 0
  /\ ops = <<>>
  /\ out = <<>>
  /\ delivered = Nothing
  /\ connected = TRUE
  /\ raw = <<>> /\ once = <<>> /\ twice = <<>> /\ npc = "off"

BlogInit ==
  /\ server \in Servers
  /\ bpl \in {Constructed(ps, inf) : ps \in DataPageSizes, inf \in BOOLEAN}
  /\ loads = <<>>
  /\ blogEvent = NoBlogEvent
  /\ track = Untracked
  /\ CartOff
  /\ AccordionOff
  /\ AutoCloseOff

\* an init that runs on every connectedCallback
alreadyInitialisedNever(e) == FALSE
\* if (this.#controller) return
alreadyInitialised(e) == e.controller

\* connectedCallback: idempotent init, then reset() and loadNext().  clicks
\* counts the click listeners on the load-more button whose signal is not
\* aborted, observers the intersection observers that observe the sentinel.
connectedCallback ==
  LET init == [bpl EXCEPT !.controller = TRUE, !.ariaBusy = TRUE, !.skeleton = TRUE,
                          !.clicks = @ + 1,
                          !.io = IF bpl.infinite THEN TRUE ELSE bpl.io,
                          !.observers = IF bpl.infinite THEN @ + 1 ELSE @,
                          !.moreHidden = bpl.infinite,
                          !.sentinelHidden = ~bpl.infinite]
      r == reset(init)
  IN /\ \/ \* if (this.#controller) return
           /\ alreadyInitialised(bpl)
           /\ blogEvent' = BlogEvent("connect", "again", 0, 0, FALSE)
           /\ UNCHANGED <<bpl, loads, track>>
        \/ /\ ~alreadyInitialised(bpl)
           /\ WithinBounds(r)
           /\ bpl' = loadNextStart(r)
           /\ loads' = MarkStale(loads) \o loadNextRequest(r)
           /\ blogEvent' = BlogEvent("connect", "init", RequestedPage(r), 0, FALSE)
           /\ track' = [sinceReset |-> loadNextRequest(r) = <<>>, tainted |-> FALSE]
     /\ UNCHANGED <<server, cartVars, normVars, widgetVars>>

\* disconnectedCallback: abort() removes the listeners added with the signal,
\* and #io, if any, is disconnected
disconnectedCallback ==
  /\ bpl' = [bpl EXCEPT !.controller = FALSE, !.io = FALSE,
                        !.clicks = IF bpl.controller THEN 0 ELSE @,
                        !.observers = IF bpl.io THEN @ - 1 ELSE @]
  /\ blogEvent' = BlogEvent("disconnect", IF bpl.controller THEN "attached" ELSE "detached",
                            0, 0, FALSE)
  /\ UNCHANGED <<loads, track, server, cartVars, normVars, widgetVars>>

\* a script calls reset()
CallReset ==
  /\ bpl.skeleton
  /\ bpl' = reset(bpl)
  /\ loads' = MarkStale(loads)
  /\ blogEvent' = BlogEvent("reset", "reset", 0, 0, FALSE)
  /\ track' = [sinceReset |-> TRUE, tainted |-> FALSE]
  /\ UNCHANGED <<server, cartVars, normVars, widgetVars>>

\* loadNext up to `await fetch(...)`, called by the load-more button, the
\* intersection observer or a script
loadNext ==
  /\ bpl.skeleton
  /\ WithinBounds(bpl)
  /\ bpl' = loadNextStart(bpl)
  /\ loads' = loads \o loadNextRequest(bpl)
  /\ blogEvent' = BlogEvent("loadNext",
                            IF bpl.loading THEN "loading"
                            ELSE IF bpl.done THEN "done" ELSE "issued",
                            RequestedPage(bpl), 0, FALSE)
  /\ track' = [track EXCEPT !.sinceReset = @ /\ loadNextRequest(bpl) = <<>>]
  /\ UNCHANGED <<server, cartVars, normVars, widgetVars>>

\* a load that failed: catch (err) { this.#renderError(err) } finally { ... }
LoadFailed(i, what, case) ==
  /\ bpl' = loadFinally(renderError(bpl))
  /\ loads' = LoadSettled(i)
  /\ blogEvent' = BlogEvent(what, case, 0, loads[i].page, loads[i].stale)
  /\ track' = [track EXCEPT !.tainted = @ \/ loads[i].stale]

\* `await fetch(...)` rejects: the network failed
LoadReject(i) ==
  /\ i \in 1..Len(loads)
  /\ loads[i].pc = "fetch"
  /\ LoadFailed(i, "reject", "failed")
  /\ UNCHANGED <<server, cartVars, normVars, widgetVars>>

\* `await fetch(...)` resolves; if (!res.ok) throw, else on to res.json()
LoadResolve(i, ok) ==
  /\ i \in 1..Len(loads)
  /\ loads[i].pc = "fetch"
  /\ IF ok
     THEN /\ loads' = [loads EXCEPT ![i].pc = "json"]
          /\ blogEvent' = BlogEvent("response", "ok", 0, loads[i].page, loads[i].stale)
          /\ UNCHANGED <<bpl, track>>
     ELSE LoadFailed(i, "response", "failed")
  /\ UNCHANGED <<server, cartVars, normVars, widgetVars>>

\* `await res.json()` settles and loadNext runs to its end
LoadBody(i, body) ==
  /\ i \in 1..Len(loads)
  /\ loads[i].pc = "json"
  /\ body \in BlogBodies(loads[i].page, loads[i].size)
  /\ IF body.kind = "unreadable"
     THEN LoadFailed(i, "body", "failed")
     ELSE /\ bpl' = loadFinally(loadContinue(bpl, loads[i], body))
          /\ loads' = LoadSettled(i)
          /\ blogEvent' = BlogEvent("body", IF body.items = <<>> THEN "noitems" ELSE "items",
                                    0, loads[i].page, loads[i].stale)
          /\ track' = [track EXCEPT !.tainted = @ \/ loads[i].stale]
  /\ UNCHANGED <<server, cartVars, normVars, widgetVars>>

LoadSettle(i) ==
  \/ LoadReject(i)
  \/ \E ok \in BOOLEAN : LoadResolve(i, ok)
  \/ \E body \in {NoJson, NoItems} \cup {PageData(p, q) : p \in 1..MaxPage, q \in DataPageSizes} :
       LoadBody(i, body)
\* The body read is the page that was asked for.
LoadSucceed(i) ==
  \E p \in 1..MaxPage, q \in DataPageSizes : LoadBody(i, PageData(p, q))

BlogNext ==
  \/ connectedCallback
  \/ disconnectedCallback
  \/ CallReset
  \/ loadNext
  \/ \E i \in 1..Len(loads) : LoadSettle(i)

BlogSpec == BlogInit /\ [][BlogNext]_vars

\* loadNext keeps being called, every request settles in the end, and the
\* endpoint does not fail for ever: of the requests made again and again, one
\* is answered OK, and of the bodies read again and again, one is the page.
BlogFairSpec ==
  /\ BlogSpec
  /\ WF_vars(loadNext)
  /\ \A i \in 1..MaxLoads :
       /\ WF_vars(LoadSettle(i))
       /\ SF_vars(LoadResolve(i, TRUE))
       /\ SF_vars(LoadSucceed(i))

\* ------------------------------------------------- accordion-custom.js
\* An <accordion-custom> element on a page.  connectedCallback and
\* disconnectedCallback are called by the browser on insertion and removal and
\* may be called by a script at any time; what is inside the element changes
\* only while it is detached.  #handleKeyDown, #handleSummaryClick and
\* #handleMediaQueryChange are instance fields, so every addEventListener of a
\* handler passes the same callback: a target that already lists it ignores
\* the call.
Structures == {"none", "details", "full"}
\* values of a data attribute; "absent" is the undefined of dataset
BoolAttrs == {"absent", "True", "0"}
toLowerCase(v) ==
  CASE v = "True" -> "true"
    [] v = "Mobile" -> "mobile"
    [] v = "Desktop" -> "desktop"
    [] v = "Always" -> "always"
    [] OTHER -> v
parseBool(val) ==
  IF val = "" \/ val = "absent" THEN FALSE ELSE toLowerCase(val) \in {"true", "1"}
\* this.details && this.summary
hasStructure(a) == a.structure = "full"

\* what AbortController.abort() does to a listener registered with its signal
Released(l) == IF l = "held" THEN "off" ELSE l
\* what dropping a controller without aborting it does to such a listener
Orphaned(l) == IF l = "held" THEN "lost" ELSE l
\* a connectedCallback / disconnectedCallback that aborts nothing
abortNever(a) == a
\* this.#controller?.abort()
abort(a) ==
  IF a.controller = "null" THEN a
  ELSE [a EXCEPT !.controller = "aborted", !.keydown = Released(@),
                 !.click = Released(@), !.change = Released(@)]
\* this.#controller = new AbortController()
newController(a) ==
  [a EXCEPT !.controller = "live", !.keydown = Orphaned(@),
            !.click = Orphaned(@), !.change = Orphaned(@)]
\* target.addEventListener(type, handler, { signal }) with a fresh signal
addEventListener(l) == IF l = "off" THEN "held" ELSE l
\* the three registrations of connectedCallback; the optional chain skips the
\* third when mediaQueryLarge is undefined
registerAll(a) ==
  [a EXCEPT !.keydown = addEventListener(@), !.click = addEventListener(@),
            !.change = IF a.mediaQueryLarge THEN addEventListener(@) ELSE @]
\* how the element was when connectedCallback ran
ConnectCase(a) ==
  IF a.controller = "live" THEN "again"
  ELSE IF a.controller = "aborted" THEN "reattach" ELSE "first"

\* #setDefaultOpenState returns at once without a <details>; the rest of its
\* body decides the open attribute from the breakpoint and the
\* open-by-default attributes: either value can come out.
setDefaultOpenState(a, op) == IF a.structure = "none" THEN a ELSE [a EXCEPT !.open = op]

accordionConnectedCallback ==
  LET a == [newController(abort(acc)) EXCEPT !.connected = TRUE]
  IN /\ \/ /\ ~hasStructure(a)
           /\ acc' = a
           /\ accEvent' = AccordionEvent("connect", "missing")
        \/ /\ hasStructure(a)
           /\ \E op \in BOOLEAN : acc' = registerAll(setDefaultOpenState(a, op))
           /\ accEvent' = AccordionEvent("connect", ConnectCase(acc))
     /\ UNCHANGED <<cartVars, normVars, blogVars, acd, acdEvent>>

accordionDisconnectedCallback ==
  /\ acc' = [abort(acc) EXCEPT !.connected = FALSE]
  /\ accEvent' = AccordionEvent("disconnect", IF acc.connected THEN "attached" ELSE "detached")
  /\ UNCHANGED <<cartVars, normVars, blogVars, acd, acdEvent>>

\* A script rebuilds what is inside the detached element.
Restructure(st) ==
  /\ ~acc.connected
  /\ st # acc.structure
  /\ acc' = [acc EXCEPT !.structure = st]
  /\ accEvent' = AccordionEvent("restructure", st)
  /\ UNCHANGED <<cartVars, normVars, blogVars, acd, acdEvent>>

\* A keydown event reaches the element while #handleKeyDown is registered.
handleKeyDown(key) ==
  LET closes == hasStructure(acc) /\ key = "Escape" /\ parseBool(acc.closeWithEscape)
  IN /\ acc.keydown # "off"
     /\ acc' = IF closes THEN [acc EXCEPT !.open = FALSE] ELSE acc
     /\ accEvent' = AccordionEvent("keydown", IF closes THEN "closed" ELSE "ignored")
     /\ UNCHANGED <<cartVars, normVars, blogVars, acd, acdEvent>>

\* A click on the <summary>: #handleSummaryClick, when registered, prevents
\* the native toggle on a breakpoint the accordion is disabled on.
handleSummaryClick(isMobile) ==
  LET blocked == /\ acc.click # "off"
                 /\ \/ isMobile /\ parseBool(acc.disableOnMobile)
                    \/ ~isMobile /\ parseBool(acc.disableOnDesktop)
  IN /\ hasStructure(acc)
     /\ acc' = IF blocked THEN acc ELSE [acc EXCEPT !.open = ~@]
     /\ accEvent' = AccordionEvent("click", IF blocked THEN "blocked" ELSE "toggled")
     /\ UNCHANGED <<cartVars, normVars, blogVars, acd, acdEvent>>

\* The large media query flips while #handleMediaQueryChange is registered.
handleMediaQueryChange ==
  /\ acc.change # "off"
  /\ \E op \in BOOLEAN : acc' = setDefaultOpenState(acc, op)
  /\ accEvent' = AccordionEvent("change", "default")
  /\ UNCHANGED <<cartVars, normVars, blogVars, acd, acdEvent>>

AccordionInit ==
  /\ acc \in {AccordionCustom(st, mq, esc, dm, dd, op) :
                st \in Structures, mq \in BOOLEAN, esc \in BoolAttrs,
                dm \in BoolAttrs, dd \in BoolAttrs, op \in BOOLEAN}
  /\ accEvent = AccordionEvent("none", "none")
  /\ AutoCloseOff
  /\ CartOff
  /\ BlogOff

AccordionNext ==
  \/ accordionConnectedCallback
  \/ accordionDisconnectedCallback
  \/ \E st \in Structures : Restructure(st)
  \/ \E key \in {"Escape", "Enter"} : handleKeyDown(key)
  \/ \E isMobile \in BOOLEAN : handleSummaryClick(isMobile)
  \/ handleMediaQueryChange

AccordionSpec == AccordionInit /\ [][AccordionNext]_vars

\* ---------------------------------------- auto-close-details (part_000)
\* The script on a page with up to MaxDetails <details> elements.  A details
\* carries the attribute data-auto-close-details or not, is open or closed,
\* and sits in the document (parent 0) or inside an earlier details.  Node 0
\* is the document, node k a node inside details k and inside no details
\* nested in it.  Attribute values are sequences of words, commas and blanks.
MaxDetails == 2
Widths == {BREAKPOINT - 1, BREAKPOINT, BREAKPOINT + 1}
WithoutAttr == [marked |-> FALSE, value |-> <<>>]
WithAttr(v) == [marked |-> TRUE, value |-> v]
AttrValues ==
  {<<>>, <<"mobile">>, <<" ", "Desktop">>, <<"mobile", ",", " ", "Always">>}
Attrs == {WithoutAttr} \cup {WithAttr(v) : v \in AttrValues}
Parents == {f \in [1..MaxDetails -> 0..(MaxDetails - 1)] : \A k \in 1..MaxDetails : f[k] < k}

\* w < BREAKPOINT ? 'mobile' : 'desktop'
Side(w) == IF w < BREAKPOINT THEN "mobile" ELSE "desktop"
\* a crossing test that misses a width of exactly BREAKPOINT
crossesStrict(w, last) ==
  \/ w < BREAKPOINT /\ last > BREAKPOINT
  \/ w > BREAKPOINT /\ last < BREAKPOINT
\* the condition of updateMode
crosses(w, last) ==
  \/ w < BREAKPOINT /\ last >= BREAKPOINT
  \/ w >= BREAKPOINT /\ last < BREAKPOINT
updateMode(a) ==
  [a EXCEPT !.closingOn = IF crosses(a.innerWidth, a.lastWidth) THEN Side(a.innerWidth) ELSE @,
            !.lastWidth = a.innerWidth]

\* (el.getAttribute(ATTR) || '').split(',').map(s => s.trim().toLowerCase())
modes(el) ==
  LET parts == SplitComma(el.value)
  IN [k \in 1..Len(parts) |-> [j \in 1..Len(Trim(parts[k])) |-> toLowerCase(Trim(parts[k])[j])]]
\* document.querySelectorAll(`details[${ATTR}][open]`)
openDetails(a) == {k \in 1..Len(a.attrs) : a.attrs[k].marked /\ a.open[k]}
\* event.composedPath(): the target, then what it is inside, up to the document
RECURSIVE composedPath(_, _)
composedPath(a, n) == IF n = 0 THEN <<0>> ELSE <<n>> \o composedPath(a, a.parent[n])
\* el.contains(n) for the details k
RECURSIVE contains(_, _, _)
contains(a, k, n) == n # 0 /\ (n = k \/ contains(a, k, a.parent[n]))
\* a loop body that forgets 'always'
skipsWithoutAlways(a, k, path) ==
  \/ ~includes(modes(a.attrs[k]), <<a.closingOn>>)
  \/ \E n \in Range(path) : contains(a, k, n)
\* the two `continue` conditions of the click listener's loop
skips(a, k, path) ==
  \/ ~includes(modes(a.attrs[k]), <<a.closingOn>>) /\ ~includes(modes(a.attrs[k]), <<"always">>)
  \/ \E n \in Range(path) : contains(a, k, n)
\* the details the click listener closes
closedBy(a, t) == {k \in openDetails(a) : ~skips(a, k, composedPath(a, t))}

\* The window is resized to width w; updateMode runs while it is registered.
resize(w) ==
  /\ acd' = IF acd.stopped THEN [acd EXCEPT !.innerWidth = w]
            ELSE updateMode([acd EXCEPT !.innerWidth = w])
  /\ acdEvent' = AcdEvent("resize", acd.lastWidth, {})
  /\ UNCHANGED <<cartVars, normVars, blogVars, acc, accEvent>>

\* A click on node t reaches the document; the listener runs unless its
\* signal was aborted.
click(t) ==
  LET closed == IF acd.stopped THEN {} ELSE closedBy(acd, t)
  IN /\ acd' = [acd EXCEPT !.open = [k \in 1..Len(acd.open) |-> acd.open[k] /\ k \notin closed]]
     /\ acdEvent' = AcdEvent("click", t, closed)
     /\ UNCHANGED <<cartVars, normVars, blogVars, acc, accEvent>>

\* The visitor or a script opens or closes the details k.
toggle(k) ==
  /\ acd' = [acd EXCEPT !.open[k] = ~@]
  /\ acdEvent' = AcdEvent("toggle", k, {})
  /\ UNCHANGED <<cartVars, normVars, blogVars, acc, accEvent>>

\* window.AutoCloseDetails.stop()
stop ==
  /\ acd' = [acd EXCEPT !.stopped = TRUE]
  /\ acdEvent' = AcdEvent("stop", 0, {})
  /\ UNCHANGED <<cartVars, normVars, blogVars, acc, accEvent>>

\* The script has just run: closingOn and lastWidth from window.innerWidth.
AutoCloseInit ==
  /\ \E w \in Widths, at \in [1..MaxDetails -> Attrs],
        op \in [1..MaxDetails -> BOOLEAN], pa \in Parents :
       acd = [innerWidth |-> w, closingOn |-> Side(w), lastWidth |-> w,
              stopped |-> FALSE, attrs |-> at, open |-> op, parent |-> pa]
  /\ acdEvent = AcdEvent("none", 0, {})
  /\ AccordionOff
  /\ CartOff
  /\ BlogOff

AutoCloseNext ==
  \/ \E w \in Widths : resize(w)
  \/ \E t \in 0..MaxDetails : click(t)
  \/ \E k \in 1..MaxDetails : toggle(k)
  \/ stop

AutoCloseSpec == AutoCloseInit /\ [][AutoCloseNext]_vars

\* ================================================================ claims
IsSettlement(e) == e.what \in {"reject", "body"}
CodePanelShown(e) == ~e.cartDiscountError /\ ~e.cartDiscountErrorDiscountCode
ShippingPanelShown(e) == ~e.cartDiscountError /\ ~e.cartDiscountErrorShipping
Unlocked(u) == ~u.disabled /\ ~u.ariaBusy /\ u.statusText = ""
Broadcasts(calls) == {k \in 1..Len(calls) : calls[k].type = "broadcast"}
Morphs(calls) == {k \in 1..Len(calls) : calls[k].type = "morph"}
Fetches(calls) == {k \in 1..Len(calls) : calls[k].type = "fetch"}
Aborts(calls) == {k \in 1..Len(calls) : calls[k].type = "abort"}

\* C1: at most one request is active (issued, not aborted, not yet settled),
\* after any interleaving of calls and settlements.
C1_AtMostOneActive == Cardinality({k \in OpIds : ~ops[k].aborted}) <= 1

\* C2: the settlement of an operation that a later one aborted, while another
\* operation is still in flight, changes no UI state: submit control, status
\* text, input and error panels stay as they are, and the controller keeps its
\* handle.
C2_StaleSettlementSilent ==
  [][(IsSettlement(delivered') /\ delivered'.aborted /\ ops' # <<>>)
       => /\ ui' = ui
          /\ input' = input
          /\ errors' = errors
          /\ (activeFetch # 0 => activeFetch' # 0)]_vars

\* C3: an applyDiscount whose OK response marks the new code applicable and
\* whose markup holds a pill for it dispatches the broadcast exactly once with
\* the response payload, then replaces the section with the returned markup
\* (once), clears the input and shows no error panel.
C3_ApplySuccess ==
  [][(/\ delivered'.what = "body" /\ delivered'.kind = "apply" /\ ~delivered'.aborted
      /\ delivered'.case = <<"applicable", "gained">>)
       => /\ \A body \in Bodies :
               BodySettle(delivered'.op, body)
                 => out' = <<Call("broadcast", delivered'.op, <<>>, body),
                             Call("morph", delivered'.op, JoinComma(body.html), body)>>
          /\ Cardinality(Broadcasts(out')) = 1
          /\ Cardinality(Morphs(out')) = 1
          /\ \A b \in Broadcasts(out'), m \in Morphs(out') : b < m
          /\ pills' = out'[2].data.html
          /\ input' = <<>>
          /\ errors' = errors]_vars
C3_Witness ==
  /\ delivered.what = "body" /\ delivered.kind = "apply" /\ ~delivered.aborted
  /\ delivered.case = <<"applicable", "gained">>
  /\ Len(out) = 2 /\ pills # <<>> /\ input = <<>> /\ errors = hideAllErrors

\* The settlement of an apply request that no later operation aborted.
ApplySettled(e) == e.kind = "apply" /\ ~e.aborted

\* C4: an applyDiscount whose response lists the submitted code with
\* applicable:false shows the discount-code error panel and clears the input;
\* no section replacement, no broadcast, the pills stay as rendered.
C4_NotApplicable ==
  [][(delivered'.what = "body" /\ ApplySettled(delivered')
        /\ delivered'.case = <<"inapplicable">>)
       => /\ CodePanelShown(errors')
          /\ input' = <<>>
          /\ out' = <<>>
          /\ pills' = pills]_vars
C4_Witness ==
  /\ delivered.what = "body" /\ ApplySettled(delivered)
  /\ delivered.case = <<"inapplicable">>
  /\ CodePanelShown(errors) /\ input = <<>> /\ pills # <<>>

\* C5: an applyDiscount whose response lists the submitted code with
\* applicable:true while the returned markup has the same set of pill codes as
\* before the request shows the shipping error panel and clears the input; no
\* broadcast, no section replacement.
C5_ShippingHeuristic ==
  [][(delivered'.what = "body" /\ ApplySettled(delivered')
        /\ delivered'.case = <<"applicable", "same">>)
       => /\ ShippingPanelShown(errors')
          /\ input' = <<>>
          /\ out' = <<>>
          /\ pills' = pills]_vars
C5_Witness ==
  /\ delivered.what = "body" /\ ApplySettled(delivered)
  /\ delivered.case = <<"applicable", "same">>
  /\ ShippingPanelShown(errors) /\ input = <<>> /\ pills # <<>>

\* C6: an applyDiscount whose request fails at the network level, returns a
\* non-OK status or returns a body that is not JSON shows the generic
\* discount-code error panel, with no section replacement and no broadcast.
C6_FailureShowsError ==
  (/\ ApplySettled(delivered)
   /\ \/ delivered.what = "reject"
      \/ delivered.what = "body"
           /\ delivered.case \in {<<"notok">>, <<"unreadable">>, <<"nonobject">>})
    => CodePanelShown(errors) /\ out = <<>>

\* C7: applyDiscount with an input that normalises to a code already among the
\* rendered pills issues no request, clears the input, and leaves the UI lock,
\* the error panels and any in-flight operation untouched.
C7_DuplicateApply ==
  [][(delivered'.what = "apply" /\ normalizeCode(input) \in CodeSet(pills))
       => /\ out' = <<>>
          /\ input' = <<>>
          /\ UNCHANGED <<ui, errors, activeFetch, ops, pills>>]_vars
C7_Witness ==
  /\ delivered.what = "apply" /\ delivered.case = <<"present">>
  /\ input = <<>> /\ out = <<>>
  /\ ops # <<>> /\ activeFetch # 0 /\ ui.disabled

\* C8: removeDiscount for a code that is not among the rendered pills is a
\* no-op: no request, no abort, no broadcast, no section replacement.
C8_RemoveAbsent ==
  [][(/\ delivered'.what = "remove"
      /\ \E t \in PillTexts, key \in {"click", "Enter", "Space"} :
           removeDiscount(t, key) /\ normalizeCode(t) \notin CodeSet(pills))
       => /\ out' = <<>>
          /\ UNCHANGED <<ui, errors, input, activeFetch, ops, pills>>]_vars
C8_Witness ==
  /\ delivered.what = "remove" /\ delivered.case = <<"absent">>
  /\ pills # <<>> /\ out = <<>>
  /\ ops # <<>> /\ activeFetch # 0 /\ ~ops[activeFetch].aborted

\* C9: normalisation is idempotent: normalising a normalised code changes
\* nothing, also for inputs with several leading '#'.
C9_NormalizeIdempotent == npc = "twice" => twice = once

\* C10: the controller never stays locked: whenever no operation is in flight
\* the submit control is enabled, and a locked UI is always followed by the
\* submit control enabled, the status text cleared and the handle released.
C10_NeverStaysLocked ==
  /\ [](ops = <<>> => ~ui.disabled)
  /\ (ui.disabled ~> (Unlocked(ui) /\ activeFetch = 0))
C10_Witness ==
  /\ IsSettlement(delivered) /\ delivered.kind = "apply"
  /\ ui.submitBtn /\ Unlocked(ui) /\ activeFetch = 0 /\ ops = <<>>

\* C11: the settlement of an applyDiscount that a later operation aborted, at
\* whatever point of the request, makes neither the discount-code nor the
\* shipping error panel visible.
C11_AbortedApplySilent ==
  [][(IsSettlement(delivered') /\ delivered'.kind = "apply" /\ delivered'.aborted)
       => /\ (CodePanelShown(errors') => CodePanelShown(errors))
          /\ (ShippingPanelShown(errors') => ShippingPanelShown(errors))]_vars

\* C12: once the cart-discount element is disconnected, the settlement of a
\* request that was in flight dispatches no broadcast, replaces no section
\* markup and makes no error panel visible.
C12_DisconnectCancels ==
  [][(~connected /\ IsSettlement(delivered'))
       => /\ Broadcasts(out') = {} /\ Morphs(out') = {}
          /\ (CodePanelShown(errors') => CodePanelShown(errors))
          /\ (ShippingPanelShown(errors') => ShippingPanelShown(errors))]_vars

\* The codes the cart endpoint reads from the `discount` field of a body.
SentCodes(text) == IF text = <<>> THEN <<>> ELSE SplitComma(text)

\* C13: every request body carries the codes as one comma-joined list in
\* application order: applyDiscount sends the codes of the rendered pills in
\* their rendered order, then the new code; removeDiscount sends the codes of
\* the rendered pills without the removed one, the others in their order.
C13_BodyInOrder ==
  [][\A k \in Fetches(out') :
       LET sent == SentCodes(out'[k].text)
           shown == [j \in 1..Len(pills) |-> normalizeCode(pills[j])]
           code == ops'[delivered'.op].code
       IN /\ delivered'.what = "apply"
               => sent = shown \o <<normalizeCode(input)>>
          /\ delivered'.what = "remove"
               => \E idx \in 1..Len(shown) :
                    /\ shown[idx] = code
                    /\ Len(sent) = Len(shown) - 1
                    /\ \A j \in 1..Len(sent) :
                         sent[j] = IF j < idx THEN shown[j] ELSE shown[j + 1]]_vars
C13_Witness ==
  /\ delivered.what = "remove" /\ Len(pills) = 3
  /\ \E k \in Fetches(out) :
       /\ Len(SentCodes(out[k].text)) = 2
       /\ SentCodes(out[k].text)[1] = normalizeCode(pills[1])
       /\ SentCodes(out[k].text)[2] = normalizeCode(pills[3])

\* C14: as long as the rendered pills hold no two codes that are equal after
\* normalisation, the list of codes a request sends holds no code twice.
C14_SentCodesUnique ==
  NoDupNormalized(pills)
    => \A k \in Fetches(out) :
         LET sent == SentCodes(out[k].text)
         IN \A i, j \in 1..Len(sent) : i # j => sent[i] # sent[j]
C14_Witness ==
  /\ delivered.what = "apply" /\ pills # <<>> /\ NoDupNormalized(pills)
  /\ \E k \in Fetches(out) : Len(SentCodes(out[k].text)) = Len(pills) + 1

\* C15: a removeDiscount whose request fails (network error, non-OK status or
\* a body that cannot be parsed) shows no error panel, dispatches no
\* broadcast, replaces no section and leaves the pills as rendered; on an OK
\* response with markup the broadcast is dispatched and the section replaced.
C15_RemoveFailureSwallowed ==
  [][(IsSettlement(delivered') /\ delivered'.kind = "remove" /\ ~delivered'.aborted)
       => /\ (\/ delivered'.what = "reject"
              \/ delivered'.case \in {<<"notok">>, <<"unreadable">>})
               => /\ out' = <<>>
                  /\ errors' = errors
                  /\ pills' = pills
          /\ (delivered'.case = <<"object">> /\ Morphs(out') # {})
               => /\ Cardinality(Broadcasts(out')) = 1
                  /\ \A m \in Morphs(out') : pills' = out'[m].data.html]_vars

\* C16: applyDiscount with an input that normalises to the empty string is a
\* no-op: no request, no abort of a request in flight, no lock of the UI,
\* input value and error panels as they were.
C16_EmptyApply ==
  [][(delivered'.what = "apply" /\ normalizeCode(input) = <<>>)
       => /\ Fetches(out') = {} /\ Aborts(out') = {}
          /\ UNCHANGED <<ui, input, errors, activeFetch, ops, pills>>]_vars
C16_Witness ==
  /\ delivered.what = "apply" /\ delivered.case = <<"empty">>
  /\ input = <<"#">> /\ out = <<>>
  /\ activeFetch # 0 /\ ~ops[activeFetch].aborted

IsLoadSettlement(e) == e.what \in {"reject", "body"} \/ (e.what = "response" /\ e.case = "failed")
IsItem(c) == c.kind = "item"
\* The posts rendered in the list, in DOM order.
Posts(l) == SelectSeq(l, IsItem)

\* C17: reset() returns the blog list to page 1 with an empty list in every
\* state; the first request issued after a reset asks for page 1, and the
\* settlement of a request issued before the reset adds no post to the list.
C17_ResetRestarts ==
  [][/\ blogEvent'.what = "reset" => bpl'.page = 1 /\ bpl'.list = <<>>
     /\ (track.sinceReset /\ blogEvent'.req # 0) => blogEvent'.req = 1
     /\ (IsLoadSettlement(blogEvent') /\ blogEvent'.stale)
          => Posts(bpl'.list) = Posts(bpl.list)]_vars

\* The done state: #done set, load-more control and sentinel hidden.
Stopped == bpl.done /\ bpl.moreHidden /\ bpl.sentinelHidden
\* The last step ran reset(), by itself or from connectedCallback.
Restarted ==
  blogEvent.what = "reset" \/ (blogEvent.what = "connect" /\ blogEvent.case = "init")

\* C18: the blog list stops when nothing is left: whatever the responses
\* carry and whether or not the element has data-page-size, repeated loadNext
\* calls lead to the done state unless reset() runs first, and while #done is
\* set loadNext issues no request.
C18_StopsWhenNothingLeft ==
  /\ [][(bpl.done /\ blogEvent'.what = "loadNext")
          => blogEvent'.req = 0 /\ loads' = loads]_vars
  /\ (bpl.skeleton ~> (Stopped \/ Restarted))

\* C19: at most one page load of the blog list is in flight; loadNext called
\* while a load is in flight (by the button, the observer, a script, or by
\* connectedCallback on a reconnect) issues no request and changes no state,
\* and every settlement, success or failure, clears the loading flag.
C19_OneLoadInFlight ==
  /\ [](Len(loads) <= 1)
  /\ [][/\ (blogEvent'.what = "loadNext" /\ bpl.loading)
            => blogEvent'.req = 0 /\ UNCHANGED <<bpl, loads>>
        /\ (blogEvent'.what = "connect" /\ bpl.loading)
            => blogEvent'.req = 0 /\ Len(loads') = Len(loads) /\ bpl'.loading
        /\ IsLoadSettlement(blogEvent') => ~bpl'.loading]_vars
C19_Witness ==
  /\ blogEvent.what = "loadNext" /\ blogEvent.case = "loading"
  /\ bpl.loading /\ Len(loads) = 1 /\ loads[1].pc = "json"

\* The pages the rendered posts came from, in DOM order.
RenderedPages(l) == [k \in 1..Len(Posts(l)) |-> Posts(l)[k].page]

\* C20: without an intervening reset the page requested starts at 1, grows by
\* exactly 1 after each successful load that rendered items and stays after a
\* failed load, so a retry asks for the same page again; every page is
\* rendered at most once, in increasing order.
C20_PageProgression ==
  /\ [][/\ (blogEvent'.what = "connect" /\ blogEvent'.req # 0) => blogEvent'.req = 1
        /\ blogEvent'.req # 0 => blogEvent'.req = bpl.page \/ blogEvent'.what = "connect"
        /\ (blogEvent'.what = "body" /\ blogEvent'.case = "items" /\ ~blogEvent'.stale)
            => bpl'.page = bpl.page + 1
        /\ (IsLoadSettlement(blogEvent') /\ blogEvent'.case = "failed" /\ ~blogEvent'.stale)
            => bpl'.page = bpl.page]_vars
  /\ [](~track.tainted
          => LET pages == RenderedPages(bpl.list)
                 posts == Posts(bpl.list)
             IN /\ \A j, k \in 1..Len(pages) : j < k => pages[j] <= pages[k]
                /\ \A j, k \in 1..Len(posts) : j # k => posts[j].post # posts[k].post
                /\ \A k \in 1..Len(pages) : pages[k] < bpl.page)
C20_Witness ==
  /\ ~track.tainted /\ bpl.page = 3 /\ ErrorDiv \in Range(bpl.list)
  /\ blogEvent.what = "body" /\ blogEvent.case = "items" /\ blogEvent.page = 2
  /\ RenderedPages(bpl.list) = <<1, 1, 2>>

\* C21: a connectedCallback on an initialised blog list (no disconnect in
\* between) adds no listener and no observer, does not reset the list and
\* starts no load; whenever the element is initialised, also after a
\* disconnect and a connect, exactly one set of listeners is active.
C21_InitIdempotent ==
  /\ [][(blogEvent'.what = "connect" /\ bpl.controller)
          => blogEvent'.req = 0 /\ UNCHANGED <<bpl, loads>>]_vars
  /\ [](bpl.controller
          => bpl.clicks = 1 /\ bpl.observers = IF bpl.infinite THEN 1 ELSE 0)
C21_Witness ==
  /\ blogEvent.what = "connect" /\ blogEvent.case = "again"
  /\ bpl.infinite /\ bpl.clicks = 1 /\ bpl.observers = 1
  /\ Len(loads) = 1 /\ loads[1].stale /\ bpl.loading

\* C22: after any sequence of connectedCallback and disconnectedCallback
\* calls each of the keydown, summary-click and media-query handlers is
\* registered at most once and then with the signal of the live controller
\* the element holds, only while the element is connected with its <details>
\* and <summary> present, and none is registered after disconnect.
AccordionListeners == {acc.keydown, acc.click, acc.change}
C22_ListenerLifecycle ==
  /\ AccordionListeners \subseteq {"off", "held"}
  /\ "held" \in AccordionListeners
       => acc.connected /\ hasStructure(acc) /\ acc.controller = "live"
  /\ ~acc.connected => AccordionListeners = {"off"}
\* connectedCallback ran twice in a row on a complete accordion
C22_Witness ==
  /\ accEvent = AccordionEvent("connect", "again")
  /\ acc.keydown = "held" /\ acc.click = "held" /\ acc.change = "held"

\* C23: after any sequence of resize events the closing mode is the side of
\* the breakpoint the last observed width is on ('mobile' iff it is below
\* BREAKPOINT), and the mode changes only in a resize whose width is on the
\* other side of the breakpoint than the width observed before.
C23_ModeFollowsWidth ==
  /\ [](acd.closingOn = IF acd.lastWidth < BREAKPOINT THEN "mobile" ELSE "desktop")
  /\ [][acd'.closingOn # acd.closingOn
          => /\ acdEvent'.what = "resize"
             /\ (acd.lastWidth < BREAKPOINT) # (acd'.lastWidth < BREAKPOINT)]_vars
\* a resize from exactly BREAKPOINT to below it has turned the mode to mobile
C23_Witness ==
  /\ acdEvent.what = "resize" /\ acdEvent.target = BREAKPOINT
  /\ acd.lastWidth = BREAKPOINT - 1 /\ acd.closingOn = "mobile"
  /\ ~acd.stopped

\* C24: a document click closes exactly the open details that carry the
\* attribute, whose mode list holds the current closing mode or 'always', and
\* that contain no node of the click path; every other details keeps its
\* state (one containing the target, one whose modes do not match, one
\* without the attribute), and after AutoCloseDetails.stop() a click closes
\* nothing.
ListsMode(k, m) == \E i \in DOMAIN modes(acd.attrs[k]) : modes(acd.attrs[k])[i] = <<m>>
C24_ClickCloses ==
  [][acdEvent'.what = "click"
       => \A k \in 1..MaxDetails :
            LET hit == /\ ~acd.stopped
                       /\ acd.open[k] /\ acd.attrs[k].marked
                       /\ (ListsMode(k, acd.closingOn) \/ ListsMode(k, "always"))
                       /\ \A n \in Range(composedPath(acd, acdEvent'.target)) :
                            ~contains(acd, k, n)
            IN acd'.open[k] = (acd.open[k] /\ ~hit)]_vars
\* a click inside the open marked details 1 has closed details 2 and left
\* details 1 open
C24_Witness ==
  /\ acdEvent.what = "click" /\ acdEvent.target = 1 /\ acdEvent.closed = {2}
  /\ acd.attrs[1].marked /\ acd.open[1] /\ ListsMode(1, acd.closingOn)
  /\ ~acd.open[2]

====
